---- MODULE Spec2Model ----
(***************************************************************************)
(* SparrowDB storage engine: one Database (db/db.go) with its commitlog,   *)
(* its list of dataHolders, its cache, and the compaction service          *)
(* (db/compaction.go: registerDbCompaction, doCompaction, ...).            *)
(*                                                                         *)
(* Keys are identified with their 32-bit hash (util.Hash32): the model     *)
(* has no two keys with the same hash.  A record's payload is the number   *)
(* of the InsertData call that wrote it (ver), so every write is           *)
(* distinguishable.  A frame offset is the position of the frame in its    *)
(* file.                                                                   *)
(***************************************************************************)
EXTENDS Integers, Sequences, FiniteSets, TLC

\* ---------------------------------------------------------------- bounds
NumKeys == 2
MaxInserts == 3
MaxGets == 1
MaxTicks == 2
MaxFails == 1
MaxCorrupt == 1
MaxOpens == 1

\* ------------------------------------------------- database descriptor
\* Descriptor.MaxDataLogSize (InsertData's rollover threshold)
MaxDataLogSize == 2

Keys == 1 .. NumKeys
\* DataDefinition.Size of the records inserted: one that fits the commitlog
\* with another, and one larger than the threshold itself
RecSizes == {1, MaxDataLogSize + 1}

\* model.DataDefinitionActive / model.DataDefinitionRemoved
ACTIVE == "ACTIVE"
REMOVED == "REMOVED"

NoEntry == [status |-> "none", offset |-> 0]
NoRec == [key |-> 0, status |-> "none", ver |-> 0, size |-> 0]
NotFound == NoRec

\* index.Summary with no entry
EmptySummary == [k \in Keys |-> NoEntry]

VARIABLES
    cache,       \* db.cache: the LRU's entry for each key of the model
    commitlog,   \* db.commitlog: the in-memory Commitlog (its summary)
    clDir,       \* disk: the commitlog directory: "commitlog" (commitlog
                 \*   file in place), "data" (file renamed to the data file),
                 \*   "none" (directory renamed away)
    clData,      \* disk: frames of the file in the commitlog directory
    disk,        \* disk: the timestamp-named directories, by creation order
    dhList,      \* db.dhList
    mu,          \* db.mu
    ins,         \* the InsertData call in progress
    get,         \* the GetDataByKey call in progress
    runs,        \* the doCompaction runs started so far
    activeCron,  \* activeCron[db.Descriptor.Name] is set
    closed,      \* Close was called and OpenDatabase not yet
    quiet,       \* at Close no compaction run was in progress
    lastDone,    \* per key, the record of the last InsertData that returned nil
    runSince,    \* the run started since the last InsertData call began, or 0
    nIns, nGet, nFail, nCorrupt, nOpen,
    dropped      \* DBManager.DropDatabase has dropped the database

vars == << cache, commitlog, clDir, clData, disk, dhList, mu, ins, get, runs,
           activeCron, closed, quiet, lastDone, runSince, nIns, nGet, nFail, nCorrupt,
           nOpen, dropped >>

\* ------------------------------------------------------------ helpers

RECURSIVE SumSize(_)
\* Storage.Size of a file holding these frames
SumSize(frames) ==
    IF frames = << >> THEN 0 ELSE Head(frames).size + SumSize(Tail(frames))

\* Summary.Add: a later entry for the same key replaces the earlier one
SummaryAdd(summary, rec, off) ==
    [summary EXCEPT ![rec.key] = [status |-> rec.status, offset |-> off]]

RECURSIVE LoadIndexFrom(_, _, _)
LoadIndexFrom(frames, i, summary) ==
    IF i > Len(frames) THEN summary
    ELSE LoadIndexFrom(frames, i + 1, SummaryAdd(summary, frames[i], i))

\* indexReader.LoadIndex: one entry per frame, in file order
LoadIndex(frames) == LoadIndexFrom(frames, 1, EmptySummary)

\* Summary.GetTable: the keys that have an entry
TableKeys(summary) == {k \in Keys : summary[k] # NoEntry}

\* cache.Put
CachePut(c, rec) == [c EXCEPT ![rec.key] = rec]

\* cache.Get: the cached record of the key, or nil (NoRec)
CacheGet(c, k) == c[k]

\* a directory that does not exist (never created, or removed by util.DeleteDir)
NoDir == [data |-> << >>, bloom |-> {}, hasBloom |-> FALSE, present |-> FALSE,
          corrupt |-> FALSE]

\* the reader's Read(position) on the data file of timestamp directory d:
\* NoRec when the file cannot be opened or the frame cannot be read
ReadFrame(d, off) ==
    IF disk[d].present /\ ~disk[d].corrupt /\ off >= 1 /\ off <= Len(disk[d].data)
    THEN disk[d].data[off]
    ELSE NoRec

\* dataHolder.Get: the frame, or nil (NoRec) after logging ErrFileCorrupted
dataHolderGet(dh, off) == ReadFrame(dh.path, off)

\* Commitlog.Get: summary lookup, then the frame read from the commitlog file
CommitlogGet(k) ==
    IF commitlog.summary[k] = NoEntry THEN NoRec
    ELSE IF clDir = "commitlog" /\ commitlog.summary[k].offset <= Len(clData)
    THEN clData[commitlog.summary[k].offset]
    ELSE NoRec

\* Commitlog.Size: the commitlog file's length, an error (-1) without the file
CommitlogSize == IF clDir = "commitlog" THEN SumSize(clData) ELSE -1

RECURSIVE ScanFromContinue(_, _)
\* the search as the specification describes it: a dataHolder whose frame
\* cannot be read is passed over and the older ones are searched
ScanFromContinue(k, curr) ==
    IF curr = 0 THEN NotFound
    ELSE IF /\ k \in dhList[curr].bloomfilter
            /\ dhList[curr].summary[k] # NoEntry
            /\ dataHolderGet(dhList[curr], dhList[curr].summary[k].offset) # NoRec
    THEN dataHolderGet(dhList[curr], dhList[curr].summary[k].offset)
    ELSE ScanFromContinue(k, curr - 1)

RECURSIVE ScanFrom(_, _)
\* GetDataByKey's loop over db.dhList, from curr down to the oldest: the first
\* dataHolder whose bloom filter and summary hold the key decides the answer;
\* a frame that cannot be read ends the call with (nil, false)
ScanFrom(k, curr) ==
    IF curr = 0 THEN NotFound
    ELSE IF k \in dhList[curr].bloomfilter /\ dhList[curr].summary[k] # NoEntry
    THEN dataHolderGet(dhList[curr], dhList[curr].summary[k].offset)
    ELSE ScanFrom(k, curr - 1)

\* GetDataByKey run without interruption: cache, commitlog, data files
GetAnswer(k) ==
    IF CacheGet(cache, k) # NoRec THEN CacheGet(cache, k)
    ELSE IF CommitlogGet(k) # NoRec THEN CommitlogGet(k)
    ELSE ScanFrom(k, Len(dhList))

IdleIns == [pc |-> "idle", rec |-> NoRec, path |-> 0]
IdleGet == [pc |-> "idle", key |-> 0, since |-> NoRec, res |-> NoRec]

RunActive(r) == r.pc \notin {"done", "hung", "crashed"}
NoRunActive == \A i \in 1 .. Len(runs) : ~RunActive(runs[i])

\* ------------------------------------------------------------ Init
\* NewDatabase on an empty directory
Init ==
    /\ cache = [k \in Keys |-> NoRec]
    /\ commitlog = [summary |-> EmptySummary]
    /\ clDir = "commitlog"
    /\ clData = << >>
    /\ disk = << >>
    /\ dhList = << >>
    /\ mu = "free"
    /\ ins = IdleIns
    /\ get = IdleGet
    /\ runs = << >>
    /\ activeCron = TRUE
    /\ closed = FALSE
    /\ quiet = FALSE
    /\ lastDone = [k \in Keys |-> NoRec]
    /\ runSince = 0
    /\ nIns = 0
    /\ nGet = 0
    /\ nFail = 0
    /\ nCorrupt = 0
    /\ nOpen = 0
    /\ dropped = FALSE

\* ------------------------------------------------------------ InsertData

\* InsertData up to the size check: lock, cache.Put, commitlog.Size and the
\* comparison with MaxDataLogSize
InsertBegin(k, st, sz) ==
    /\ ins.pc = "idle"
    /\ mu = "free"
    /\ ~closed
    /\ nIns < MaxInserts
    /\ nIns' = nIns + 1
    /\ runSince' = 0
    /\ LET rec == [key |-> k, status |-> st, ver |-> nIns + 1, size |-> sz]
       IN  /\ cache' = CachePut(cache, rec)
           /\ IF CommitlogSize < 0
              THEN /\ ins' = IdleIns
                   /\ mu' = "free"
              ELSE /\ mu' = "insert"
                   /\ ins' = [pc |-> IF CommitlogSize + sz > MaxDataLogSize
                                     THEN "renameFile" ELSE "add",
                              rec |-> rec, path |-> 0]
    /\ UNCHANGED << commitlog, clDir, clData, disk, dhList, get, runs, activeCron,
                    closed, quiet, lastDone, nGet, nFail, nCorrupt, nOpen, dropped >>

\* newDataHolder: Storage.Rename of the commitlog file to the data file
RollRenameFile ==
    /\ ins.pc = "renameFile"
    /\ clDir' = "data"
    /\ ins' = [ins EXCEPT !.pc = "renameDir"]
    /\ UNCHANGED << cache, commitlog, clData, disk, dhList, mu, get, runs, activeCron,
                    closed, quiet, lastDone, nIns, nGet, nFail, nCorrupt, nOpen,
                    runSince, dropped >>

\* newDataHolder: os.Rename of the commitlog directory to the UnixNano name
RollRenameDir ==
    /\ ins.pc = "renameDir"
    /\ disk' = Append(disk, [data |-> clData, bloom |-> {}, hasBloom |-> FALSE,
                             present |-> TRUE, corrupt |-> FALSE])
    /\ clDir' = "none"
    /\ clData' = << >>
    /\ ins' = [ins EXCEPT !.pc = "open", !.path = Len(disk) + 1]
    /\ UNCHANGED << cache, commitlog, dhList, mu, get, runs, activeCron, closed, quiet,
                    lastDone, nIns, nGet, nFail, nCorrupt, nOpen, runSince, dropped >>

\* the dataHolder newDataHolder returns: index loaded from the renamed
\* directory, bloom filter populated from the summary's table
NewHolder(path) ==
    [path |-> path,
     summary |-> LoadIndex(disk[path].data),
     bloomfilter |-> TableKeys(LoadIndex(disk[path].data))]

\* newDataHolder: OpenFile, LoadIndex, bloom filter created and written;
\* then InsertData appends the dataHolder to db.dhList
RollOpen ==
    /\ ins.pc = "open"
    /\ disk' = [disk EXCEPT ![ins.path].bloom = NewHolder(ins.path).bloomfilter,
                            ![ins.path].hasBloom = TRUE]
    /\ dhList' = Append(dhList, NewHolder(ins.path))
    /\ ins' = [ins EXCEPT !.pc = "swap"]
    /\ UNCHANGED << cache, commitlog, clDir, clData, mu, get, runs, activeCron, closed,
                    quiet, lastDone, nIns, nGet, nFail, nCorrupt, nOpen, runSince,
                    dropped >>

\* newDataHolder as in RollOpen, but writer.Append of the bloom filter's
\* bytes fails: the error is dropped, the file stays as Create left it
\* (empty), and the dataHolder is returned with its filter in memory
RollOpenBloomLost ==
    /\ ins.pc = "open"
    /\ nFail < MaxFails
    /\ nFail' = nFail + 1
    /\ disk' = [disk EXCEPT ![ins.path].bloom = {}, ![ins.path].hasBloom = TRUE]
    /\ dhList' = Append(dhList, NewHolder(ins.path))
    /\ ins' = [ins EXCEPT !.pc = "swap"]
    /\ UNCHANGED << cache, commitlog, clDir, clData, mu, get, runs, activeCron, closed,
                    quiet, lastDone, nIns, nGet, nCorrupt, nOpen, runSince, dropped >>

\* a step of newDataHolder returns an error (the file rename, the directory
\* rename, or one of OpenFile, LoadIndex and the bloom filter file's Create):
\* InsertData returns it, and its deferred Unlock runs
RollFail ==
    /\ ins.pc \in {"renameFile", "renameDir", "open"}
    /\ nFail < MaxFails
    /\ nFail' = nFail + 1
    /\ ins' = IdleIns
    /\ mu' = "free"
    /\ UNCHANGED << cache, commitlog, clDir, clData, disk, dhList, get, runs,
                    activeCron, closed, quiet, lastDone, nIns, nGet, nCorrupt, nOpen,
                    runSince, dropped >>

\* InsertData: db.commitlog = NewCommitLog(db.Descriptor.Path)
RollSwap ==
    /\ ins.pc = "swap"
    /\ commitlog' = [summary |-> EmptySummary]
    /\ clDir' = "commitlog"
    /\ clData' = << >>
    /\ ins' = [ins EXCEPT !.pc = "add"]
    /\ UNCHANGED << cache, disk, dhList, mu, get, runs, activeCron, closed, quiet,
                    lastDone, nIns, nGet, nFail, nCorrupt, nOpen, runSince, dropped >>

\* InsertData: db.commitlog.Add, then return nil and release the lock
InsertAdd ==
    /\ ins.pc = "add"
    /\ clData' = Append(clData, ins.rec)
    /\ commitlog' = [summary |-> SummaryAdd(commitlog.summary, ins.rec, Len(clData) + 1)]
    /\ lastDone' = [lastDone EXCEPT ![ins.rec.key] = ins.rec]
    /\ ins' = IdleIns
    /\ mu' = "free"
    /\ UNCHANGED << cache, clDir, disk, dhList, get, runs, activeCron, closed, quiet,
                    nIns, nGet, nFail, nCorrupt, nOpen, runSince, dropped >>

\* ------------------------------------------------------------ GetDataByKey
\* GetDataByKey takes no lock: each access to shared state is a step

\* GetDataByKey: the cache lookup
GetStart(k) ==
    /\ get.pc = "idle"
    /\ ~closed
    /\ nGet < MaxGets
    /\ nGet' = nGet + 1
    /\ get' = IF CacheGet(cache, k) # NoRec
              THEN [pc |-> "done", key |-> k, since |-> lastDone[k],
                    res |-> CacheGet(cache, k)]
              ELSE [pc |-> "commitlog", key |-> k, since |-> lastDone[k],
                    res |-> NoRec]
    /\ UNCHANGED << cache, commitlog, clDir, clData, disk, dhList, mu, ins, runs,
                    activeCron, closed, quiet, lastDone, nIns, nFail, nCorrupt, nOpen,
                    runSince, dropped >>

\* GetDataByKey: db.commitlog.Get(key)
GetCommitlog ==
    /\ get.pc = "commitlog"
    /\ get' = IF CommitlogGet(get.key) # NoRec
              THEN [get EXCEPT !.pc = "fill", !.res = CommitlogGet(get.key)]
              ELSE [get EXCEPT !.pc = "scan"]
    /\ UNCHANGED << cache, commitlog, clDir, clData, disk, dhList, mu, ins, runs,
                    activeCron, closed, quiet, lastDone, nIns, nGet, nFail, nCorrupt,
                    nOpen, runSince, dropped >>

\* GetDataByKey: db.cache.Put of the frame found in the commitlog, and return
GetFill ==
    /\ get.pc = "fill"
    /\ cache' = CachePut(cache, get.res)
    /\ get' = [get EXCEPT !.pc = "done"]
    /\ UNCHANGED << commitlog, clDir, clData, disk, dhList, mu, ins, runs, activeCron,
                    closed, quiet, lastDone, nIns, nGet, nFail, nCorrupt, nOpen,
                    runSince, dropped >>

\* GetDataByKey: the search in the data files, newest dataHolder first
GetScan ==
    /\ get.pc = "scan"
    /\ get' = [get EXCEPT !.pc = "done", !.res = ScanFrom(get.key, Len(dhList))]
    /\ UNCHANGED << cache, commitlog, clDir, clData, disk, dhList, mu, ins, runs,
                    activeCron, closed, quiet, lastDone, nIns, nGet, nFail, nCorrupt,
                    nOpen, runSince, dropped >>

\* the caller takes the result
GetReturn ==
    /\ get.pc = "done"
    /\ get' = IdleGet
    /\ UNCHANGED << cache, commitlog, clDir, clData, disk, dhList, mu, ins, runs,
                    activeCron, closed, quiet, lastDone, nIns, nGet, nFail, nCorrupt,
                    nOpen, runSince, dropped >>

\* ------------------------------------------------------------ compaction

\* a run of doCompaction
NewRun == [pc |-> "collect", tombs |-> {}, launched |-> 0, rangeLen |-> 0,
           idx |-> 0, remaining |-> {}]
EndRun(pc) == [pc |-> pc, tombs |-> {}, launched |-> 0, rangeLen |-> 0,
               idx |-> 0, remaining |-> {}]

\* the scheduler fires the job registerDbCompaction added: doCompaction starts
\* in a goroutine of its own
Tick ==
    /\ activeCron
    /\ Len(runs) < MaxTicks
    /\ runs' = Append(runs, NewRun)
    /\ runSince' = Len(runs) + 1
    /\ UNCHANGED << cache, commitlog, clDir, clData, disk, dhList, mu, ins, get,
                    activeCron, closed, quiet, lastDone, nIns, nGet, nFail, nCorrupt,
                    nOpen, dropped >>

\* the tombstoneMarks of one summary, tagged with the owning path
TombstonesOf(path, summary) ==
    {[path |-> path, key |-> k] : k \in {x \in Keys : summary[x].status = REMOVED}}

\* geTombstonesFromDb: what goroutine i reads through its pointer to the
\* loop variable dh: the element of its own iteration or of a later one
GoroutineViews(n) == {f \in [1 .. n -> 1 .. n] : \A i \in 1 .. n : f[i] >= i}

\* geTombstonesFromDb: the results the collector goroutines send
CollectedFromDb(f) ==
    UNION {TombstonesOf(dhList[f[i]].path, dhList[f[i]].summary) : i \in DOMAIN f}

\* a compaction run that forgets the tombstones of the commitlog
NoTombstonesFromCommitlog == {}

\* getTombstonesFromCommitlog
getTombstonesFromCommitlog == TombstonesOf(0, commitlog.summary)

\* containsKey
containsKey(key, list) == \E tb \in list : tb.key = key

\* dhContainsAnyTombstone
dhContainsAnyTombstone(dh, list) == \E v \in list : dh.summary[v.key] # NoEntry

\* doCompaction: the keys of the dataHolder's table to reinsert in the commitlog
Survivors(dh, list) == {k \in TableKeys(dh.summary) : ~containsKey(k, list)}

\* geTombstonesFromDb: one collector goroutine per dataHolder of db.dhList
CompCollect(r) ==
    /\ r \in 1 .. Len(runs)
    /\ runs[r].pc = "collect"
    /\ \E t \in {CollectedFromDb(f) : f \in GoroutineViews(Len(dhList))} :
          runs' = [runs EXCEPT ![r].pc = "join", ![r].tombs = t,
                               ![r].launched = Len(dhList)]
    /\ UNCHANGED << cache, commitlog, clDir, clData, disk, dhList, mu, ins, get,
                    activeCron, closed, quiet, lastDone, nIns, nGet, nFail, nCorrupt,
                    nOpen, runSince, dropped >>

\* geTombstonesFromDb: dhListLen := len(db.dhList) and the receive loop, which
\* never ends when the list has grown since the goroutines were launched;
\* then doCompaction calls removeDbCompaction
CompJoin(r) ==
    /\ r \in 1 .. Len(runs)
    /\ runs[r].pc = "join"
    /\ IF Len(dhList) > runs[r].launched
       THEN /\ runs' = [runs EXCEPT ![r] = EndRun("hung")]
            /\ UNCHANGED activeCron
       ELSE /\ runs' = [runs EXCEPT ![r].pc = "cltombs", ![r].launched = 0]
            /\ activeCron' = FALSE
    /\ UNCHANGED << cache, commitlog, clDir, clData, disk, dhList, mu, ins, get, closed,
                    quiet, lastDone, nIns, nGet, nFail, nCorrupt, nOpen, runSince,
                    dropped >>

\* doCompaction: tombstones = append(tombstones, getTombstonesFromCommitlog(db)...)
CompClTombs(r) ==
    /\ r \in 1 .. Len(runs)
    /\ runs[r].pc = "cltombs"
    /\ runs' = [runs EXCEPT ![r].pc = "range",
                            ![r].tombs = runs[r].tombs \cup getTombstonesFromCommitlog]
    /\ UNCHANGED << cache, commitlog, clDir, clData, disk, dhList, mu, ins, get,
                    activeCron, closed, quiet, lastDone, nIns, nGet, nFail, nCorrupt,
                    nOpen, runSince, dropped >>

\* the dataHolders of the range, from position i on, that doCompaction treats
Affected(i, n, list) ==
    {j \in i .. n : dhContainsAnyTombstone(dhList[j], list)}

\* doCompaction's range loop moves on from position i: the dataHolders that
\* dhContainsAnyTombstone rejects are passed over, the next one it accepts has
\* its surviving table entries reinserted, and after the last one the run
\* goes on to its completion signal
Advance(run, i) ==
    IF Affected(i, run.rangeLen, run.tombs) = {}
    THEN [run EXCEPT !.pc = "finish", !.tombs = {}, !.rangeLen = 0, !.idx = 0]
    ELSE LET j == CHOOSE x \in Affected(i, run.rangeLen, run.tombs) :
                      \A y \in Affected(i, run.rangeLen, run.tombs) : x <= y
         IN  [run EXCEPT !.pc = "rewrite", !.idx = j,
                         !.remaining = Survivors(dhList[j], run.tombs)]

\* doCompaction: for _, dh := range db.dhList evaluates db.dhList once
CompRange(r) ==
    /\ r \in 1 .. Len(runs)
    /\ runs[r].pc = "range"
    /\ runs' = [runs EXCEPT ![r] = Advance([runs[r] EXCEPT !.rangeLen = Len(dhList)], 1)]
    /\ UNCHANGED << cache, commitlog, clDir, clData, disk, dhList, mu, ins, get,
                    activeCron, closed, quiet, lastDone, nIns, nGet, nFail, nCorrupt,
                    nOpen, runSince, dropped >>

\* Commitlog.Add as doCompaction calls it: no lock, no size check, the error
\* dropped; without the commitlog file nothing is written
CompactionAdd(rec) ==
    IF clDir = "commitlog"
    THEN /\ clData' = Append(clData, rec)
         /\ commitlog' = [summary |-> SummaryAdd(commitlog.summary, rec, Len(clData) + 1)]
    ELSE UNCHANGED << clData, commitlog >>

\* doCompaction: dh.Get of one table entry that no tombstone names and
\* db.commitlog.Add of its record (the table is a Go map: any order); a frame
\* that cannot be read is a nil ByteStream, which the decoding dereferences
CompRewrite(r, k) ==
    /\ r \in 1 .. Len(runs)
    /\ runs[r].pc = "rewrite"
    /\ k \in runs[r].remaining
    /\ LET dh == dhList[runs[r].idx]
           bs == dataHolderGet(dh, dh.summary[k].offset)
       IN  IF bs = NoRec
           THEN /\ runs' = [runs EXCEPT ![r] = EndRun("crashed")]
                /\ UNCHANGED << clData, commitlog >>
           ELSE /\ runs' = [runs EXCEPT ![r].remaining = runs[r].remaining \ {k}]
                /\ CompactionAdd(bs)
    /\ UNCHANGED << cache, clDir, disk, dhList, mu, ins, get, activeCron, closed, quiet,
                    lastDone, nIns, nGet, nFail, nCorrupt, nOpen, runSince, dropped >>

\* doCompaction: util.DeleteDir(dh.path); db.dhList is left as it is
CompDelete(r) ==
    /\ r \in 1 .. Len(runs)
    /\ runs[r].pc = "rewrite"
    /\ runs[r].remaining = {}
    /\ disk' = [disk EXCEPT ![dhList[runs[r].idx].path] = NoDir]
    /\ runs' = [runs EXCEPT ![r] = Advance(runs[r], runs[r].idx + 1)]
    /\ UNCHANGED << cache, commitlog, clDir, clData, dhList, mu, ins, get, activeCron,
                    closed, quiet, lastDone, nIns, nGet, nFail, nCorrupt, nOpen,
                    runSince, dropped >>

\* doCompaction: db.compFinish <- true, received by compactionNotification
CompFinish(r) ==
    /\ r \in 1 .. Len(runs)
    /\ runs[r].pc = "finish"
    /\ runs' = [runs EXCEPT ![r] = EndRun("done")]
    /\ UNCHANGED << cache, commitlog, clDir, clData, disk, dhList, mu, ins, get,
                    activeCron, closed, quiet, lastDone, nIns, nGet, nFail, nCorrupt,
                    nOpen, runSince, dropped >>

\* ------------------------------------------------------------ environment

\* the LRU drops the entry of a key: traffic on other keys has made it the
\* least recently used one
Evict(k) ==
    /\ cache[k] # NoRec
    /\ cache' = [cache EXCEPT ![k] = NoRec]
    /\ UNCHANGED << commitlog, clDir, clData, disk, dhList, mu, ins, get, runs,
                    activeCron, closed, quiet, lastDone, nIns, nGet, nFail, nCorrupt,
                    nOpen, runSince, dropped >>

\* the data file of a timestamp directory is damaged on disk
Corrupt(d) ==
    /\ d \in 1 .. Len(disk)
    /\ disk[d].present
    /\ ~disk[d].corrupt
    /\ ~closed
    /\ nCorrupt < MaxCorrupt
    /\ nCorrupt' = nCorrupt + 1
    /\ disk' = [disk EXCEPT ![d].corrupt = TRUE]
    /\ UNCHANGED << cache, commitlog, clDir, clData, dhList, mu, ins, get, runs,
                    activeCron, closed, quiet, lastDone, nIns, nGet, nFail, nOpen,
                    runSince, dropped >>

\* ------------------------------------------------------------ Close, Open

\* Database.Close: removeDbCompaction
Close ==
    /\ ~closed
    /\ ins.pc = "idle"
    /\ get.pc = "idle"
    /\ closed' = TRUE
    /\ quiet' = NoRunActive
    /\ activeCron' = FALSE
    /\ UNCHANGED << cache, commitlog, clDir, clData, disk, dhList, mu, ins, get, runs,
                    lastDone, nIns, nGet, nFail, nCorrupt, nOpen, runSince, dropped >>

\* openDataHolder: index and bloom filter read from the directory; a bloom
\* filter file whose frame cannot be read leaves the filter as declared, empty
openDataHolder(d) ==
    [path |-> d, summary |-> LoadIndex(disk[d].data), bloomfilter |-> disk[d].bloom]

RECURSIVE LoadDataFrom(_)
\* Database.LoadData: the directories named by 19 digits, in name order
LoadDataFrom(d) ==
    IF d > Len(disk) THEN << >>
    ELSE IF disk[d].present THEN << openDataHolder(d) >> \o LoadDataFrom(d + 1)
    ELSE LoadDataFrom(d + 1)

\* OpenDatabase: NewDatabase, commitlog.LoadData, db.LoadData.  A directory
\* without its bloom filter file makes openDataHolder fail, which is fatal.
OpenDatabase ==
    /\ closed
    /\ NoRunActive
    /\ nOpen < MaxOpens
    /\ \A d \in 1 .. Len(disk) : disk[d].present => disk[d].hasBloom
    /\ nOpen' = nOpen + 1
    /\ closed' = FALSE
    /\ cache' = [k \in Keys |-> NoRec]
    /\ clDir' = IF clDir = "none" THEN "commitlog" ELSE clDir
    /\ commitlog' = [summary |-> IF clDir = "commitlog" THEN LoadIndex(clData)
                                 ELSE EmptySummary]
    /\ dhList' = LoadDataFrom(1)
    /\ activeCron' = TRUE
    /\ UNCHANGED << clData, disk, mu, ins, get, runs, quiet, lastDone, nIns, nGet,
                    nFail, nCorrupt, runSince, dropped >>

\* ------------------------------------------------------------ DropDatabase

\* DBManager.DropDatabase of the database: it is taken out of dbm.databases,
\* util.DeleteDir removes its directory with everything in it, and nil is
\* returned; Database.Close is not called
DropDatabase ==
    /\ ~dropped
    /\ dropped' = TRUE
    /\ clDir' = "none"
    /\ clData' = << >>
    /\ disk' = [d \in DOMAIN disk |-> NoDir]
    /\ UNCHANGED << cache, commitlog, dhList, mu, ins, get, runs, activeCron, closed,
                    quiet, lastDone, nIns, nGet, nFail, nCorrupt, nOpen, runSince >>

\* ------------------------------------------------------------ Next

\* no call and no compaction run is in progress
Quiescent == ins.pc = "idle" /\ get.pc = "idle" /\ NoRunActive

\* the steps of InsertData
Insert ==
    \/ \E k \in Keys, st \in {ACTIVE, REMOVED}, sz \in RecSizes : InsertBegin(k, st, sz)
    \/ RollRenameFile
    \/ RollRenameDir
    \/ RollOpen
    \/ RollSwap
    \/ InsertAdd

\* the steps of GetDataByKey
Get ==
    \/ \E k \in Keys : GetStart(k)
    \/ GetCommitlog
    \/ GetFill
    \/ GetScan
    \/ GetReturn

\* the steps of doCompaction
Compaction ==
    \/ \E r \in 1 .. MaxTicks : CompCollect(r)
    \/ \E r \in 1 .. MaxTicks : CompJoin(r)
    \/ \E r \in 1 .. MaxTicks : CompClTombs(r)
    \/ \E r \in 1 .. MaxTicks : CompRange(r)
    \/ \E r \in 1 .. MaxTicks, k \in Keys : CompRewrite(r, k)
    \/ \E r \in 1 .. MaxTicks : CompDelete(r)
    \/ \E r \in 1 .. MaxTicks : CompFinish(r)

Next ==
    \/ Insert
    \/ RollFail
    \/ RollOpenBloomLost
    \/ Get
    \/ Tick
    \/ Compaction
    \/ \E d \in 1 .. MaxInserts : Corrupt(d)
    \/ \E k \in Keys : Evict(k)
    \/ Close
    \/ OpenDatabase
    \/ DropDatabase

\* every interleaving of the writer, a reader, the scheduler and its
\* compaction runs, with I/O failures and reopening
Spec == Init /\ [][Next]_vars

\* the writer and the compaction service, with a scheduler period longer than
\* a compaction run; the database may be closed and opened again
CompactionNext ==
    \/ Insert
    \/ Tick /\ NoRunActive
    \/ Compaction
    \/ \E k \in Keys : Evict(k)
    \/ Close
    \/ OpenDatabase

CompactionSpec == Init /\ [][CompactionNext]_vars

\* the writer and the scheduler, ticks at any time
TickNext ==
    \/ Insert
    \/ Tick
    \/ Compaction

TickSpec == Init /\ [][TickNext]_vars

\* the writer and a lock-free reader, with I/O failures
ReadNext ==
    \/ Insert
    \/ RollFail
    \/ Get
    \/ \E d \in 1 .. MaxInserts : Corrupt(d)
    \/ \E k \in Keys : Evict(k)

ReadSpec == Init /\ [][ReadNext]_vars

\* the writer, deleting keys, and one compaction run, whose goroutines are
\* scheduled fairly; the database may be closed meanwhile
CollectNext ==
    \/ \E k \in Keys, sz \in RecSizes : InsertBegin(k, REMOVED, sz)
    \/ RollRenameFile
    \/ RollRenameDir
    \/ RollOpen
    \/ RollSwap
    \/ InsertAdd
    \/ Tick /\ runs = << >>
    \/ Compaction
    \/ Close

CollectSpec == Init /\ [][CollectNext]_vars /\ WF_vars(Compaction)

\* the writer, with a bloom filter file that may fail to be written, and
\* Close followed by OpenDatabase
ReopenNext ==
    \/ Insert
    \/ RollOpenBloomLost
    \/ Close
    \/ OpenDatabase

ReopenSpec == Init /\ [][ReopenNext]_vars

\* the writer, deleting keys, the scheduler and its compaction run, and the
\* DBManager dropping the database
DropNext ==
    \/ ~dropped /\ \E k \in Keys, sz \in RecSizes : InsertBegin(k, REMOVED, sz)
    \/ RollRenameFile
    \/ RollRenameDir
    \/ RollOpen
    \/ RollSwap
    \/ InsertAdd
    \/ Tick /\ runs = << >>
    \/ Compaction
    \/ DropDatabase

DropSpec == Init /\ [][DropNext]_vars

\* one operation at a time: a call or a compaction run starts only when
\* nothing else is in progress
SerialNext ==
    \/ Insert /\ get.pc = "idle" /\ NoRunActive
    \/ RollFail
    \/ Get /\ ins.pc = "idle" /\ NoRunActive
    \/ Tick /\ Quiescent
    \/ Compaction
    \/ Quiescent /\ \E d \in 1 .. MaxInserts : Corrupt(d)
    \/ Quiescent /\ \E k \in Keys : Evict(k)
    \/ Quiescent /\ Close
    \/ OpenDatabase

SerialSpec == Init /\ [][SerialNext]_vars

\* ------------------------------------------------------------ properties

\* no I/O failure has been injected
NoFaults == nFail = 0 /\ nCorrupt = 0

\* C1: whenever nothing is in progress, every key whose most recent completed
\* InsertData wrote an ACTIVE record is found by GetDataByKey, with the payload
\* of that record.
C1_LiveRecordReturned ==
    \A k \in Keys :
        (Quiescent /\ NoFaults /\ lastDone[k].status = ACTIVE)
            => GetAnswer(k) = lastDone[k]

\* C2: whenever nothing is in progress, for every key whose most recent
\* completed InsertData wrote a REMOVED record, GetDataByKey returns a REMOVED
\* record or nothing, never an ACTIVE record.
C2_TombstoneMasks ==
    \A k \in Keys :
        (Quiescent /\ NoFaults /\ lastDone[k].status = REMOVED)
            => GetAnswer(k).status # ACTIVE

\* C3: without compaction and without I/O failure, a GetDataByKey that began
\* after an InsertData of its key had returned, and that no other InsertData
\* of that key overlaps, returns the record that InsertData wrote, whatever
\* an InsertData of another key does meanwhile.
C3_GetObservesInsert ==
    (/\ get.pc = "done"
     /\ get.since # NoRec
     /\ lastDone[get.key] = get.since
     /\ ins.rec.key # get.key
     /\ NoFaults
     /\ runs = << >>)
        => get.res = get.since

\* what the caller of GetDataByKey sees of a record: a REMOVED record counts
\* as no record
Visible(rec) == IF rec.status = ACTIVE THEN rec ELSE NotFound

\* C4: when OpenDatabase follows a Close made with no compaction run in
\* progress and no I/O failure has occurred, GetDataByKey gives for every key
\* the answer it gave before (a REMOVED record and no record counted as the
\* same answer).
C4_ReopenSameAnswers ==
    [][(closed /\ ~closed' /\ quiet /\ NoFaults)
          => \A k \in Keys : Visible(GetAnswer(k))' = Visible(GetAnswer(k))]_vars

\* C5: when InsertData returns, the commitlog file is no longer than
\* MaxDataLogSize.
C5_CommitlogBounded ==
    [][(ins.pc = "add" /\ ins'.pc = "idle") => SumSize(clData') <= MaxDataLogSize]_vars

\* a dataHolder of db.dhList whose table holds an ACTIVE record of key k
SealedActive(k) ==
    \E i \in 1 .. Len(dhList) : dhList[i].summary[k].status = ACTIVE

\* the scenario of a key k: an ACTIVE record sealed by a rollover, then a
\* REMOVED record as the most recent InsertData, nothing in progress
SealedThenRemoved(k) ==
    /\ Quiescent
    /\ NoFaults
    /\ SealedActive(k)
    /\ lastDone[k].status = REMOVED
    /\ lastDone[k].ver = nIns

\* the directories of all dataHolders whose table holds key k are deleted
HoldersDeleted(k) ==
    \A i \in 1 .. Len(dhList) :
        dhList[i].summary[k] # NoEntry => ~disk[dhList[i].path].present

\* C6: with an ACTIVE record of a key sealed in a data file and a REMOVED
\* record of it inserted afterwards, GetDataByKey returns the REMOVED record
\* before compaction; a compaction run started after that InsertData
\* completes, after it every data file directory that held the key is deleted
\* and GetDataByKey still returns the REMOVED record, which stays in the
\* commitlog.
C6_TombstoneAfterCompaction ==
    \A k \in Keys :
        SealedThenRemoved(k) =>
            /\ runSince = 0 => GetAnswer(k) = lastDone[k]
            /\ runSince > 0 =>
                   /\ runs[runSince].pc = "done"
                   /\ HoldersDeleted(k)
                   /\ GetAnswer(k) = lastDone[k]

\* C6 as the specification words it: after the compaction run the data file
\* is deleted and GetDataByKey finds nothing
C6_NotFoundAfterCompaction ==
    \A k \in Keys :
        (SealedThenRemoved(k) /\ runSince > 0) =>
            /\ HoldersDeleted(k)
            /\ GetAnswer(k) = NotFound

\* C6 happens: a compaction run has completed after the REMOVED record was
\* inserted, the directory that held the key is gone, and the key is no
\* longer in the cache
C6_Witness ==
    \E k \in Keys :
        /\ SealedThenRemoved(k)
        /\ runSince > 0
        /\ runs[runSince].pc = "done"
        /\ HoldersDeleted(k)
        /\ cache[k] = NoRec
        /\ GetAnswer(k).status = REMOVED

\* C7: at most one compaction run of the database is in progress.
C7_OneRunAtATime ==
    Cardinality({r \in 1 .. Len(runs) : RunActive(runs[r])}) <= 1

\* C8: a step of a compaction run that appends to the commitlog or deletes a
\* data file directory is never taken while InsertData holds the write lock.
C8_CompactionUnderLock ==
    [][(runs' # runs /\ (clData' # clData \/ disk' # disk)) => mu = "free"]_vars

\* C9: when a step of the rollover fails and InsertData returns the error,
\* the commitlog file is in its directory under its name, every record the
\* commitlog indexes can be read from it, db.dhList is as it was and the
\* record is not in the commitlog.
C9_RolloverFailureRestores ==
    [][(ins.pc \in {"renameFile", "renameDir", "open"} /\ ins'.pc = "idle")
          => /\ clDir' = "commitlog"
             /\ \A k \in Keys :
                   commitlog'.summary[k] # NoEntry => CommitlogGet(k)' # NoRec
             /\ dhList' = dhList
             /\ \A i \in 1 .. Len(clData') : clData'[i] # ins.rec]_vars

\* the newest dataHolder whose bloom filter and table hold key k, 0 if none
NewestHolder(k) ==
    LET hs == {i \in 1 .. Len(dhList) :
                  k \in dhList[i].bloomfilter /\ dhList[i].summary[k] # NoEntry}
    IN  IF hs = {} THEN 0 ELSE CHOOSE i \in hs : \A j \in hs : j <= i

\* the frame of key k in dataHolder i cannot be read
Unreadable(k, i) == dataHolderGet(dhList[i], dhList[i].summary[k].offset) = NoRec

Stored(rec) ==
    \/ clDir = "commitlog" /\ \E i \in 1 .. Len(clData) : clData[i] = rec
    \/ \E d \in 1 .. Len(disk) :
          disk[d].present /\ \E i \in 1 .. Len(disk[d].data) : disk[d].data[i] = rec

\* C11: when a compaction run deletes the directory of a dataHolder, every
\* record of that dataHolder that no tombstone names has been appended to the
\* commitlog: it is still in a file on disk after the deletion.
C11_DeletedOnlyWhenDrained ==
    [][\A r \in 1 .. Len(runs) :
          (runs[r].pc = "rewrite" /\ runs'[r] # runs[r] /\ disk' # disk)
              => \A k \in Survivors(dhList[runs[r].idx], runs[r].tombs) :
                    LET dh == dhList[runs[r].idx]
                    IN  Stored(dataHolderGet(dh, dh.summary[k].offset))']_vars

\* the record was written by a Commitlog.Add: it is a frame of the commitlog
\* file or of the data file a rollover made of it
Appended(rec) ==
    \/ \E i \in 1 .. Len(clData) : clData[i] = rec
    \/ \E d \in 1 .. Len(disk) : \E i \in 1 .. Len(disk[d].data) : disk[d].data[i] = rec

\* C12: a GetDataByKey that begins when no InsertData of the record it
\* returns is in progress returns a record that a Commitlog.Add has written
\* (without compaction: nothing is deleted).
C12_FailedInsertNotQueryable ==
    [][(get.pc = "idle" /\ get'.pc = "done" /\ get'.res # NoRec /\ ins.rec # get'.res)
          => Appended(get'.res)]_vars

\* C13: InsertData starts a rollover exactly when the commitlog's size plus
\* the record's size exceeds MaxDataLogSize.  The rollover appends exactly one
\* dataHolder to db.dhList, at the newest position, for the renamed directory
\* and with the summary of the commitlog in use until then; no other step of
\* InsertData changes db.dhList; after a rollover the new commitlog file holds
\* exactly the record, and without one the record is appended to the existing
\* commitlog file.
C13_RolloverExact ==
    [][/\ (ins.pc = "idle" /\ ins'.pc # "idle")
            => /\ ins'.pc \in {"renameFile", "add"}
               /\ ins'.pc = "renameFile"
                     <=> SumSize(clData) + ins'.rec.size > MaxDataLogSize
       /\ (ins.pc = "open" /\ ins'.pc = "swap")
            => /\ Len(dhList') = Len(dhList) + 1
               /\ SubSeq(dhList', 1, Len(dhList)) = dhList
               /\ dhList'[Len(dhList')].path = ins.path
               /\ dhList'[Len(dhList')].summary = commitlog.summary
       /\ (ins.pc # "open" /\ ins.pc # "idle") => dhList' = dhList
       /\ (ins.pc = "add" /\ ins'.pc = "idle")
            => /\ clData' = IF ins.path # 0 THEN << ins.rec >>
                             ELSE Append(clData, ins.rec)
               /\ commitlog'.summary[ins.rec.key].offset = Len(clData')]_vars

\* GetDataByKey's answer when the key is not in the cache
UncachedAnswer(k) ==
    IF CommitlogGet(k) # NoRec THEN CommitlogGet(k) ELSE ScanFrom(k, Len(dhList))

\* C14: after a compaction run has completed, with nothing in progress, a
\* GetDataByKey that misses the cache returns no version of a key older than
\* the most recently inserted one, when that one is in a file on disk.
C14_RewriteKeepsNewest ==
    \A k \in Keys :
        (/\ Quiescent
         /\ NoFaults
         /\ \E r \in 1 .. Len(runs) : runs[r].pc = "done"
         /\ lastDone[k] # NoRec
         /\ Stored(lastDone[k]))
            => UncachedAnswer(k).ver >= lastDone[k].ver

\* the REMOVED entries of every dataHolder of db.dhList and of the commitlog,
\* each with the path of its file
AllTombstones ==
    UNION {TombstonesOf(dhList[i].path, dhList[i].summary) : i \in 1 .. Len(dhList)}
        \cup getTombstonesFromCommitlog

\* C15: the tombstone list a compaction run has when it enters its range
\* loop is the set of the REMOVED entries of every dataHolder and of the
\* commitlog (one operation at a time: nothing is inserted during the run).
C15_TombstoneUnion ==
    [][\A r \in 1 .. Len(runs) :
          (runs[r].pc = "cltombs" /\ runs'[r].pc = "range")
              => runs'[r].tombs = AllTombstones]_vars

\* C16: every compaction run that has started eventually sends its completion
\* signal.
C16_RunsFinish ==
    \A r \in 1 .. MaxTicks :
        (Len(runs) >= r) ~> (Len(runs) >= r /\ runs[r].pc = "done")

\* C17: when a compaction run sends its completion signal on a database that
\* is not closed, the database's job is registered with the scheduler.
C17_JobRegisteredAgain ==
    [][\A r \in 1 .. Len(runs) :
          (runs[r].pc = "finish" /\ runs'[r].pc = "done" /\ ~closed)
              => activeCron']_vars

\* C18: once a compaction run has completed, the directory of every
\* dataHolder of db.dhList exists on disk.
C18_ListedDirsExist ==
    (\E r \in 1 .. Len(runs) : runs[r].pc = "done")
        => \A i \in 1 .. Len(dhList) : disk[dhList[i].path].present

\* C19: the bloom filter of every dataHolder of db.dhList contains every key
\* of the dataHolder's summary.
C19_BloomHoldsSummaryKeys ==
    \A i \in 1 .. Len(dhList) :
        TableKeys(dhList[i].summary) \subseteq dhList[i].bloomfilter

\* C20: once DropDatabase has returned, no compaction run starts on the
\* database (which takes its job to be registered with the scheduler no more).
C20_NoRunAfterDrop ==
    [][dropped => Len(runs') = Len(runs)]_vars

====
